---- MODULE Spec2Model ----
(***************************************************************************)
(* A model of package namemap (src/namemap.go): the NameMap structure, its *)
(* Load and Save, the mapping primitive Map and the From / To / FromTo     *)
(* views.  Domain index i of the Go code is position i+1 of a TLA+         *)
(* sequence; every index that is stored or returned keeps its Go value.    *)
(***************************************************************************)
EXTENDS Integers, Sequences, FiniteSets, TLC

\* ------------------------------------------------------------------ bounds
MaxDoms == 2    \* longest header that is read
MaxRows == 2    \* most data rows of one definition text
MaxTo == 2      \* longest toDomains / toNames argument list
MaxLoads == 2   \* most Load calls on one NameMap

\* ------------------------------------------------------------ input values
Names == {"a", "b"}
QueryNames == Names \cup {"z"}
Terms == {"x", "y"}
Strs == Terms \cup {""}

\* a header column as table.ReadDef yields it
Cols == [Name : Names, Meta : BOOLEAN]
Headers == UNION {[1..n -> Cols] : n \in 0..MaxDoms}

\* a row item as Definition.NextRow yields it: an atom, or another expression
NotAtom == [kind |-> "seq", meta |-> FALSE, str |-> ""]
MetaAtom == [kind |-> "atom", meta |-> TRUE, str |-> "null"]
Atoms == {[kind |-> "atom", meta |-> FALSE, str |-> s] : s \in Strs} \cup {MetaAtom}
Items == Atoms \cup {NotAtom}

GoodRows(n) == [1..n -> Atoms]
\* a row with an item that is no atom; what follows that item is never read
BadRows(n) ==
  {r \in [1..n -> Items] :
     \E j \in 1..n : /\ r[j] = NotAtom
                     /\ \A k \in 1..n : k < j => r[k] # NotAtom
                     /\ \A k \in 1..n : k > j => r[k] = NotAtom}
\* the rows of a text: rows after the first bad row are never read
RowInputs(n) ==
  UNION {[1..k -> GoodRows(n)] : k \in 0..MaxRows}
  \cup UNION {{Append(g, b) : g \in [1..k -> GoodRows(n)], b \in BadRows(n)} :
                k \in 0..(MaxRows - 1)}

\* ------------------------------------------------------------------- state
VARIABLES
  domIdxs,   \* NameMap.domIdxs: domain name -> index
  stdDom,    \* NameMap.stdDom
  trmMaps,   \* NameMap.trmMaps: per domain, term -> row
  loads,     \* number of Load calls made on the NameMap
  dupTerm,   \* the rows last loaded registered some term twice in one domain
  buf,       \* what Save wrote
  reloaded,  \* the NameMap loaded from buf
  res        \* the last call and what it returned

vars == <<domIdxs, stdDom, trmMaps, loads, dupTerm, buf, reloaded, res>>

EmptyMap == <<>>
NoBuf == [written |-> FALSE, def |-> <<>>, rows |-> <<>>]
NoRes == [op |-> "none"]

\* the zero value NameMap{}
ZeroNameMap == [domIdxs |-> EmptyMap, stdDom |-> 0, trmMaps |-> <<>>]

\* -------------------------------------------------------------------- Load
\* loadDoms with the second marker tested by stdDom > 0
RECURSIVE loadDomsFrom_stdPositive(_, _, _, _)
loadDomsFrom_stdPositive(d, s, tDef, i) ==
  IF i > Len(tDef)
  THEN [domIdxs |-> d, stdDom |-> s,
        err |-> IF Cardinality(DOMAIN d) = 0 THEN "empty" ELSE "nil"]
  ELSE LET col == tDef[i] IN
       IF col.Name \in DOMAIN d
       THEN [domIdxs |-> d, stdDom |-> s, err |-> "duplicate"]
       ELSE LET d2 == (col.Name :> (i - 1)) @@ d IN
            IF col.Meta
            THEN IF s > 0
                 THEN [domIdxs |-> d2, stdDom |-> s, err |-> "ambiguous"]
                 ELSE loadDomsFrom_stdPositive(d2, i - 1, tDef, i + 1)
            ELSE loadDomsFrom_stdPositive(d2, s, tDef, i + 1)

RECURSIVE loadDomsFrom(_, _, _, _)
loadDomsFrom(d, s, tDef, i) ==
  IF i > Len(tDef)
  THEN [domIdxs |-> d, stdDom |-> s,
        err |-> IF Cardinality(DOMAIN d) = 0 THEN "empty" ELSE "nil"]
  ELSE LET col == tDef[i] IN
       IF col.Name \in DOMAIN d
       THEN [domIdxs |-> d, stdDom |-> s, err |-> "duplicate"]
       ELSE LET d2 == (col.Name :> (i - 1)) @@ d IN
            IF col.Meta
            THEN IF s >= 0
                 THEN [domIdxs |-> d2, stdDom |-> s, err |-> "ambiguous"]
                 ELSE loadDomsFrom(d2, i - 1, tDef, i + 1)
            ELSE loadDomsFrom(d2, s, tDef, i + 1)

loadDoms(tDef) == loadDomsFrom(EmptyMap, -1, tDef, 1)

\* the first position of a row that holds no atom, n+1 if there is none
RECURSIVE firstNotAtom(_, _, _)
firstNotAtom(term, i, n) ==
  IF i > n THEN n + 1
  ELSE IF term[i].kind # "atom" THEN i
  ELSE firstNotAtom(term, i + 1, n)

\* tStrs as loadTerm leaves it: the slots before the first non-atom are set
tStrsOf(term, n) ==
  LET stop == firstNotAtom(term, 1, n) IN
  [i \in 1..Len(term) |->
     IF i < stop /\ ~term[i].meta THEN term[i].str ELSE ""]

\* loadTerm registering a copy of tStrs as filled so far, not tStrs itself
RECURSIVE registerFrom_copy(_, _, _, _, _)
registerFrom_copy(tm, term, tStrs, i, stop) ==
  IF i >= stop THEN tm
  ELSE IF term[i].meta THEN registerFrom_copy(tm, term, tStrs, i + 1, stop)
  ELSE registerFrom_copy(
         [tm EXCEPT ![i] =
            (term[i].str :> [j \in 1..Len(tStrs) |->
                              IF j <= i THEN tStrs[j] ELSE ""]) @@ tm[i]],
         term, tStrs, i + 1, stop)

RECURSIVE registerFrom(_, _, _, _, _)
registerFrom(tm, term, tStrs, i, stop) ==
  IF i >= stop THEN tm
  ELSE IF term[i].meta THEN registerFrom(tm, term, tStrs, i + 1, stop)
  ELSE registerFrom([tm EXCEPT ![i] = (term[i].str :> tStrs) @@ tm[i]],
                    term, tStrs, i + 1, stop)

loadTerm(tm, term, n) ==
  LET stop == firstNotAtom(term, 1, n) IN
  [trmMaps |-> registerFrom(tm, term, tStrsOf(term, n), 1, stop),
   err |-> IF stop <= n THEN "notatom" ELSE "nil"]

RECURSIVE loadRowsFrom(_, _, _, _)
loadRowsFrom(tm, rows, k, n) ==
  IF k > Len(rows) THEN [trmMaps |-> tm, err |-> "nil"]
  ELSE LET r == loadTerm(tm, rows[k], n) IN
       IF r.err # "nil" THEN r ELSE loadRowsFrom(r.trmMaps, rows, k + 1, n)

\* Load of a text whose header table.ReadDef could read.  reset tells whether
\* Load came to replace trmMaps; the NameMap's own trmMaps stay otherwise
Load(tDef, rows) ==
  LET d == loadDoms(tDef) IN
  IF d.err # "nil"
  THEN [domIdxs |-> d.domIdxs, stdDom |-> d.stdDom, reset |-> FALSE,
        trmMaps |-> <<>>, err |-> d.err]
  ELSE LET n == Cardinality(DOMAIN d.domIdxs)
           r == loadRowsFrom([i \in 1..n |-> EmptyMap], rows, 1, n)
       IN [domIdxs |-> d.domIdxs, stdDom |-> d.stdDom, reset |-> TRUE,
           trmMaps |-> r.trmMaps, err |-> r.err]

\* the NameMap a Load leaves behind
ApplyLoad(nm, r) ==
  [domIdxs |-> r.domIdxs, stdDom |-> r.stdDom,
   trmMaps |-> IF r.reset THEN r.trmMaps ELSE nm.trmMaps]

\* some good row registers a term that an earlier good row registered in
\* the same domain
RepeatsTerm(rows, n) ==
  \E j, k \in 1..Len(rows) : \E i \in 1..n :
     /\ j < k
     /\ firstNotAtom(rows[j], 1, n) > i /\ firstNotAtom(rows[k], 1, n) > i
     /\ ~rows[j][i].meta /\ ~rows[k][i].meta
     /\ rows[j][i].str = rows[k][i].str

RowsOK(rows, n) == \A k \in 1..Len(rows) : firstNotAtom(rows[k], 1, n) > n

Current == [domIdxs |-> domIdxs, stdDom |-> stdDom, trmMaps |-> trmMaps]

\* the definition texts a reader can hold, as ReadDef and NextRow yield them
Texts ==
  UNION {[tDef : {h}, rows : IF loadDoms(h).err = "nil"
                             THEN RowInputs(Len(h)) ELSE {<<>>}] : h \in Headers}

\* what Load does with each text
Loaded ==
  {[tDef |-> t.tDef,
    load |-> Load(t.tDef, t.rows),
    dup |-> RepeatsTerm(t.rows, Len(t.tDef)),
    rowsOK |-> RowsOK(t.rows, Len(t.tDef))] : t \in Texts}

\* table.ReadDef fails: Load returns before it touches the NameMap
LoadDefError ==
  /\ loads < MaxLoads
  /\ loads' = loads + 1
  /\ res' = [op |-> "Load", defOK |-> FALSE, tDef |-> <<>>, rowsOK |-> FALSE,
             err |-> "readdef"]
  /\ UNCHANGED <<domIdxs, stdDom, trmMaps, dupTerm, buf, reloaded>>

LoadText ==
  /\ loads < MaxLoads
  /\ \E t \in Loaded :
       /\ domIdxs' = ApplyLoad(Current, t.load).domIdxs
       /\ stdDom' = ApplyLoad(Current, t.load).stdDom
       /\ trmMaps' = ApplyLoad(Current, t.load).trmMaps
       /\ dupTerm' = IF t.load.reset THEN t.dup ELSE dupTerm
       /\ res' = [op |-> "Load", defOK |-> TRUE, tDef |-> t.tDef,
                  rowsOK |-> t.rowsOK, err |-> t.load.err]
  /\ loads' = loads + 1
  /\ UNCHANGED <<buf, reloaded>>

LoadAct == LoadText \/ LoadDefError

\* --------------------------------------------------------------------- Map
DomainIdx(d, domain) == IF domain \in DOMAIN d THEN d[domain] ELSE -1

\* a call that does not return: a Go run-time panic
Panic == [panic |-> TRUE, mapped |-> "", domain |-> -1]
Ret(mapped, domain) == [panic |-> FALSE, mapped |-> mapped, domain |-> domain]

\* Map returning the slot of the first valid target, empty or not
RECURSIVE mapFrom_noSkip(_, _, _, _)
mapFrom_noSkip(trms, term, toDomains, k) ==
  IF k > Len(toDomains) THEN Ret(term, -1)
  ELSE LET to == toDomains[k] IN
       IF to < 0 \/ to >= Len(trms)
       THEN mapFrom_noSkip(trms, term, toDomains, k + 1)
       ELSE Ret(trms[to + 1], to)

RECURSIVE mapFrom(_, _, _, _)
mapFrom(trms, term, toDomains, k) ==
  IF k > Len(toDomains) THEN Ret(term, -1)
  ELSE LET to == toDomains[k] IN
       IF to < 0 \/ to >= Len(trms) THEN mapFrom(trms, term, toDomains, k + 1)
       ELSE IF Len(trms[to + 1]) > 0 THEN Ret(trms[to + 1], to)
       ELSE mapFrom(trms, term, toDomains, k + 1)

\* Map returning the zero string for a term that is not registered
Map_zeroOnMiss(tm, fromDomain, term, toDomains) ==
  IF fromDomain < 0 \/ fromDomain >= Len(tm) THEN Panic
  ELSE LET tmap == tm[fromDomain + 1] IN
       IF term \in DOMAIN tmap THEN mapFrom(tmap[term], term, toDomains, 1)
       ELSE Ret("", -1)

\* nm.trmMaps[fromDomain] is a slice index: out of range, it panics
Map(tm, fromDomain, term, toDomains) ==
  IF fromDomain < 0 \/ fromDomain >= Len(tm) THEN Panic
  ELSE LET tmap == tm[fromDomain + 1] IN
       IF term \in DOMAIN tmap THEN mapFrom(tmap[term], term, toDomains, 1)
       ELSE Ret(term, -1)

MapNm(nm, fromNm, term, toNames) ==
  LET fromIdx == DomainIdx(nm.domIdxs, fromNm) IN
  IF fromIdx < 0 THEN Ret(term, -1)
  ELSE Map(nm.trmMaps, fromIdx, term,
           [i \in 1..Len(toNames) |-> DomainIdx(nm.domIdxs, toNames[i])])

\* the arguments of the calls
IdxRange == -1..Cardinality(Names)
ToLists == UNION {[1..k -> IdxRange] : k \in 0..MaxTo}
NameLists == UNION {[1..k -> QueryNames] : k \in 0..MaxTo}

\* The calls below read the NameMap and leave it as it is, so one call per
\* loaded NameMap shows all a call can return: a call is made when the last
\* thing that happened is a Load that returned nil.
Ready == res.op = "Load" /\ res.err = "nil"

MapAct ==
  /\ Ready
  /\ \E fromDomain \in IdxRange, term \in Strs, toDomains \in ToLists :
       res' = [op |-> "Map", from |-> fromDomain, term |-> term,
               to |-> toDomains,
               out |-> Map(trmMaps, fromDomain, term, toDomains)]
  /\ UNCHANGED <<domIdxs, stdDom, trmMaps, loads, dupTerm, buf, reloaded>>

MapNmAct ==
  /\ Ready
  /\ \E fromNm \in QueryNames, term \in Strs, toNames \in NameLists :
       res' = [op |-> "MapNm", fromNm |-> fromNm, term |-> term,
               toNames |-> toNames,
               out |-> MapNm(Current, fromNm, term, toNames)]
  /\ UNCHANGED <<domIdxs, stdDom, trmMaps, loads, dupTerm, buf, reloaded>>

\* ------------------------------------------------------------------- views
Nil == [err |-> "nil", MapHint |-> "", DomainHint |-> ""]
UnknownDomain(mapHint, domainHint) ==
  [err |-> "UnknownDomain", MapHint |-> mapHint, DomainHint |-> domainHint]
MapHints == {"m"}
DomainHints == {"d"}

\* From.fIdx of nm.From(fromDomain, fallback)
From(nm, fromDomain, fallback) ==
  LET fIdx == DomainIdx(nm.domIdxs, fromDomain) IN
  IF fIdx < 0 /\ fallback THEN nm.stdDom ELSE fIdx

FromStd(nm) == nm.stdDom

FromCheck(fIdx, mapHint, domainHint) ==
  IF fIdx < 0 THEN UnknownDomain(mapHint, domainHint) ELSE Nil

FromMap(nm, fIdx, term, toDomains) == Map(nm.trmMaps, fIdx, term, toDomains)

RECURSIVE toFrom(_, _, _, _, _)
toFrom(nm, toDomains, k, tIdxs, haveStd) ==
  IF k > Len(toDomains) THEN [tIdxs |-> tIdxs, haveStd |-> haveStd]
  ELSE LET idx == DomainIdx(nm.domIdxs, toDomains[k]) IN
       IF idx >= 0
       THEN toFrom(nm, toDomains, k + 1, Append(tIdxs, idx),
                   haveStd \/ (idx = nm.stdDom))
       ELSE toFrom(nm, toDomains, k + 1, tIdxs, haveStd)

\* To.tIdxs of nm.To(appendStd, toDomains...)
To(nm, appendStd, toDomains) ==
  LET r == toFrom(nm, toDomains, 1, <<>>, FALSE) IN
  IF appendStd /\ ~r.haveStd THEN Append(r.tIdxs, nm.stdDom) ELSE r.tIdxs

ToCheck(tIdxs, mapHint, domainHint) ==
  IF Len(tIdxs) = 0 THEN UnknownDomain(mapHint, domainHint) ELSE Nil

RECURSIVE toMapFrom(_, _, _, _, _)
toMapFrom(nm, tIdxs, fromDomain, term, k) ==
  IF k > Len(tIdxs) THEN Ret(term, -1)
  ELSE LET m == Map(nm.trmMaps, fromDomain, term, <<tIdxs[k]>>) IN
       IF m.panic THEN Panic
       ELSE IF m.domain >= 0 THEN Ret(m.mapped, k - 1)
       ELSE toMapFrom(nm, tIdxs, fromDomain, term, k + 1)

ToMap(nm, tIdxs, fromDomain, term) == toMapFrom(nm, tIdxs, fromDomain, term, 1)

FromToCheck(fIdx, tIdxs, mapHint, domainHint) ==
  IF fIdx < 0 THEN UnknownDomain(mapHint, domainHint)
  ELSE ToCheck(tIdxs, mapHint, domainHint)

FromToMap(nm, fIdx, tIdxs, term) == ToMap(nm, tIdxs, fIdx, term)

\* Verify: panics with the error of Check, returns the view otherwise
Verify(view, check) ==
  IF check.err # "nil" THEN [panic |-> TRUE, view |-> <<>>]
  ELSE [panic |-> FALSE, view |-> <<view>>]

FromAct ==
  /\ Ready
  /\ \E fromDomain \in QueryNames, fallback \in BOOLEAN,
        mapHint \in MapHints, domainHint \in DomainHints :
       LET fIdx == From(Current, fromDomain, fallback) IN
       res' = [op |-> "From", name |-> fromDomain, fallback |-> fallback,
               fIdx |-> fIdx, mapHint |-> mapHint, domainHint |-> domainHint,
               check |-> FromCheck(fIdx, mapHint, domainHint),
               verify |-> Verify(fIdx, FromCheck(fIdx, mapHint, domainHint))]
  /\ UNCHANGED <<domIdxs, stdDom, trmMaps, loads, dupTerm, buf, reloaded>>

FromStdAct ==
  /\ Ready
  /\ \E mapHint \in MapHints, domainHint \in DomainHints :
       LET fIdx == FromStd(Current) IN
       res' = [op |-> "FromStd", fIdx |-> fIdx,
               mapHint |-> mapHint, domainHint |-> domainHint,
               check |-> FromCheck(fIdx, mapHint, domainHint),
               verify |-> Verify(fIdx, FromCheck(fIdx, mapHint, domainHint))]
  /\ UNCHANGED <<domIdxs, stdDom, trmMaps, loads, dupTerm, buf, reloaded>>

FromMapAct ==
  /\ Ready
  /\ \E fromDomain \in QueryNames, fallback \in BOOLEAN, term \in Strs,
        toDomains \in ToLists :
       LET fIdx == From(Current, fromDomain, fallback) IN
       res' = [op |-> "FromMap", fIdx |-> fIdx, term |-> term,
               to |-> toDomains,
               out |-> FromMap(Current, fIdx, term, toDomains)]
  /\ UNCHANGED <<domIdxs, stdDom, trmMaps, loads, dupTerm, buf, reloaded>>

ToAct ==
  /\ Ready
  /\ \E appendStd \in BOOLEAN, toDomains \in NameLists,
        mapHint \in MapHints, domainHint \in DomainHints :
       LET tIdxs == To(Current, appendStd, toDomains) IN
       res' = [op |-> "To", appendStd |-> appendStd, names |-> toDomains,
               tIdxs |-> tIdxs, mapHint |-> mapHint, domainHint |-> domainHint,
               check |-> ToCheck(tIdxs, mapHint, domainHint),
               verify |-> Verify(tIdxs, ToCheck(tIdxs, mapHint, domainHint))]
  /\ UNCHANGED <<domIdxs, stdDom, trmMaps, loads, dupTerm, buf, reloaded>>

ToMapAct ==
  /\ Ready
  /\ \E appendStd \in BOOLEAN, toDomains \in NameLists,
        fromDomain \in IdxRange, term \in Strs :
       LET tIdxs == To(Current, appendStd, toDomains) IN
       res' = [op |-> "ToMap", tIdxs |-> tIdxs, from |-> fromDomain,
               term |-> term,
               out |-> ToMap(Current, tIdxs, fromDomain, term)]
  /\ UNCHANGED <<domIdxs, stdDom, trmMaps, loads, dupTerm, buf, reloaded>>

\* From(..).To(..) and To(..).From(..) bind the same two values
FromToAct ==
  /\ Ready
  /\ \E fromDomain \in QueryNames, fallback \in BOOLEAN,
        appendStd \in BOOLEAN, toDomains \in NameLists,
        mapHint \in MapHints, domainHint \in DomainHints :
       LET fIdx == From(Current, fromDomain, fallback)
           tIdxs == To(Current, appendStd, toDomains)
           chk == FromToCheck(fIdx, tIdxs, mapHint, domainHint)
       IN res' = [op |-> "FromTo", fIdx |-> fIdx, tIdxs |-> tIdxs,
                  mapHint |-> mapHint, domainHint |-> domainHint,
                  check |-> chk,
                  verify |-> Verify(<<fIdx, tIdxs>>, chk)]
  /\ UNCHANGED <<domIdxs, stdDom, trmMaps, loads, dupTerm, buf, reloaded>>

FromToMapAct ==
  /\ Ready
  /\ \E fromDomain \in QueryNames, fallback \in BOOLEAN,
        appendStd \in BOOLEAN, toDomains \in NameLists, term \in Strs :
       LET fIdx == From(Current, fromDomain, fallback)
           tIdxs == To(Current, appendStd, toDomains)
       IN res' = [op |-> "FromToMap", fIdx |-> fIdx, tIdxs |-> tIdxs,
                  term |-> term,
                  out |-> FromToMap(Current, fIdx, tIdxs, term)]
  /\ UNCHANGED <<domIdxs, stdDom, trmMaps, loads, dupTerm, buf, reloaded>>

ViewAct ==
  \/ MapAct
  \/ MapNmAct
  \/ FromAct
  \/ FromStdAct
  \/ FromMapAct
  \/ ToAct
  \/ ToMapAct
  \/ FromToAct
  \/ FromToMapAct

\* -------------------------------------------------------------------- Save
\* the orders in which a Go range over a map with these keys can visit them
Orders(S) ==
  {p \in [1..Cardinality(S) -> S] : \A x \in S : \E i \in 1..Cardinality(S) : p[i] = x}

\* xpr.Atom(term, false, xsx.Qcond): a plain atom, whatever the string
PlainAtom(term) == [kind |-> "atom", meta |-> FALSE, str |-> term]

\* What Save writes, as the reader of the text gets it back.  The header is
\* written in the order of a range over domIdxs; nm.trmMaps[nm.stdDom] panics
\* after the header when there is no standard domain.
Save(nm) ==
  LET defs == {[i \in 1..Len(p) |->
                  [Name |-> p[i], Meta |-> nm.domIdxs[p[i]] = nm.stdDom]] :
               p \in Orders(DOMAIN nm.domIdxs)}
  IN IF nm.stdDom < 0 \/ nm.stdDom >= Len(nm.trmMaps)
     THEN {[panic |-> TRUE, def |-> d, rows |-> <<>>] : d \in defs}
     ELSE LET stdTMap == nm.trmMaps[nm.stdDom + 1] IN
          {[panic |-> FALSE, def |-> d,
            rows |-> [k \in 1..Len(q) |->
                        [j \in 1..Len(stdTMap[q[k]]) |->
                           PlainAtom(stdTMap[q[k]][j])]]] :
           d \in defs, q \in Orders(DOMAIN stdTMap)}

SaveAct ==
  /\ Ready
  /\ \E o \in Save(Current) :
       /\ buf' = [written |-> TRUE, def |-> o.def, rows |-> o.rows]
       /\ res' = [op |-> "Save", panic |-> o.panic]
  /\ UNCHANGED <<domIdxs, stdDom, trmMaps, loads, dupTerm, reloaded>>

\* Load of the saved text into a new NameMap{}
ReloadAct ==
  /\ res.op = "Save" /\ ~res.panic
  /\ LET r == Load(buf.def, buf.rows) IN
       /\ reloaded' = ApplyLoad(ZeroNameMap, r)
       /\ res' = [op |-> "Reload", err |-> r.err]
  /\ UNCHANGED <<domIdxs, stdDom, trmMaps, loads, dupTerm, buf>>

\* ------------------------------------------------------------------- specs
Init ==
  /\ domIdxs = ZeroNameMap.domIdxs
  /\ stdDom = ZeroNameMap.stdDom
  /\ trmMaps = ZeroNameMap.trmMaps
  /\ loads = 0
  /\ dupTerm = FALSE
  /\ buf = NoBuf
  /\ reloaded = ZeroNameMap
  /\ res = NoRes

\* the states one successful Load leads to from Init
InitLoaded ==
  \E t \in Loaded :
    /\ t.load.err = "nil"
    /\ domIdxs = t.load.domIdxs
    /\ stdDom = t.load.stdDom
    /\ trmMaps = t.load.trmMaps
    /\ loads = 1
    /\ dupTerm = t.dup
    /\ buf = NoBuf
    /\ reloaded = ZeroNameMap
    /\ res = [op |-> "Load", defOK |-> TRUE, tDef |-> t.tDef,
              rowsOK |-> t.rowsOK, err |-> t.load.err]

FirstLoad == loads = 0 /\ LoadAct

Next == LoadAct \/ ViewAct \/ SaveAct \/ ReloadAct

Spec == Init /\ [][Next]_vars
\* any sequence of Load calls on one NameMap
SpecLoad == Init /\ [][LoadAct]_vars
\* the first Load on a new NameMap
SpecFirstLoad == Init /\ [][FirstLoad]_vars
\* the calls on a loaded NameMap
SpecMap == InitLoaded /\ [][MapAct]_vars
SpecView == InitLoaded /\ [][ViewAct]_vars
SpecSave == InitLoaded /\ [][SaveAct \/ ReloadAct]_vars
\* ------------------------------------------------------------------ claims
NDoms == Cardinality(DOMAIN domIdxs)
ValidIdx(i) == i \in 0..(NDoms - 1)
Least(S) == CHOOSE k \in S : \A j \in S : k <= j
\* the positions of a target list that qualify for a row: a valid domain
\* index whose slot is not empty
Qualifying(r, to) ==
  {k \in 1..Len(to) : ValidIdx(to[k]) /\ to[k] + 1 \in DOMAIN r /\ r[to[k] + 1] # ""}

\* C1: on a loaded NameMap, Map from a valid domain of a term that is no key
\* of that domain's Term Index returns (term, -1), whatever the target list.
C1_AbsentTermEchoed ==
  (/\ res.op = "Map"
   /\ ValidIdx(res.from)
   /\ res.term \notin DOMAIN trmMaps[res.from + 1])
  => res.out = Ret(res.term, -1)

C1_Witness ==
  /\ res.op = "Map"
  /\ ValidIdx(res.from)
  /\ DOMAIN trmMaps[res.from + 1] # {}
  /\ res.term \notin DOMAIN trmMaps[res.from + 1]
  /\ \E k \in 1..Len(res.to) : ValidIdx(res.to[k])
  /\ res.out = Ret(res.term, -1)

\* C2: Map of a registered term returns the slot of the first element of
\* toDomains that is a valid domain index with a non-empty slot, and that
\* element; out-of-range elements and empty slots are skipped; (term, -1) if
\* none qualifies.  The value returned is empty only if term is empty.
C2_FirstNonEmptyWins ==
  (res.op = "Map" /\ ValidIdx(res.from))
  => /\ ~res.out.panic
     /\ res.out.mapped = "" => res.term = ""
     /\ res.term \in DOMAIN trmMaps[res.from + 1]
        => LET r == trmMaps[res.from + 1][res.term]
               q == Qualifying(r, res.to)
           IN IF q = {} THEN res.out = Ret(res.term, -1)
              ELSE res.out = Ret(r[res.to[Least(q)] + 1], res.to[Least(q)])

C2_Witness ==
  /\ res.op = "Map"
  /\ ValidIdx(res.from)
  /\ res.term \in DOMAIN trmMaps[res.from + 1]
  /\ Len(res.to) = 2
  /\ ValidIdx(res.to[1])
  /\ res.term # ""
  /\ trmMaps[res.from + 1][res.term][res.to[1] + 1] = ""
  /\ ValidIdx(res.to[2])
  /\ res.out.domain = res.to[2]
  /\ res.out.mapped # ""

\* C3: Map, MapNm and From.Map never fail: an out-of-range fromDomain, an
\* unknown fromNm and an unresolved From view all give (term, -1).
C3_PrimitivesNeverFail ==
  /\ res.op \in {"Map", "MapNm", "FromMap"} => ~res.out.panic
  /\ (res.op = "Map" /\ ~ValidIdx(res.from)) => res.out = Ret(res.term, -1)
  /\ (res.op = "MapNm" /\ res.fromNm \notin DOMAIN domIdxs)
     => res.out = Ret(res.term, -1)
  /\ (res.op = "FromMap" /\ res.fIdx = -1) => res.out = Ret(res.term, -1)

\* C4 as claimed: for every NameMap produced by Load, rows that repeat a term
\* in one domain included: if Map(D1, term, D2) returns (crossTerm, D2) with
\* D1 # D2, then Map(D2, crossTerm, D1) returns (term, D1).
C4_SymmetryAnyRows ==
  (/\ res.op = "Map"
   /\ ValidIdx(res.from)
   /\ Len(res.to) = 1
   /\ ValidIdx(res.to[1])
   /\ res.to[1] # res.from
   /\ res.out = Ret(res.out.mapped, res.to[1]))
  => Map(trmMaps, res.to[1], res.out.mapped, <<res.from>>)
       = Ret(res.term, res.from)

\* C4 as amended: the same, for a NameMap loaded from rows in which no term
\* occurs twice in one domain, and a term that is not the empty string.
C4_SymmetryDistinctTerms ==
  (/\ res.op = "Map"
   /\ ~dupTerm
   /\ res.term # ""
   /\ ValidIdx(res.from)
   /\ Len(res.to) = 1
   /\ ValidIdx(res.to[1])
   /\ res.to[1] # res.from
   /\ res.out = Ret(res.out.mapped, res.to[1]))
  => Map(trmMaps, res.to[1], res.out.mapped, <<res.from>>)
       = Ret(res.term, res.from)

C4_Witness ==
  /\ res.op = "Map"
  /\ ~dupTerm
  /\ res.term # ""
  /\ ValidIdx(res.from)
  /\ Len(res.to) = 1
  /\ ValidIdx(res.to[1])
  /\ res.to[1] # res.from
  /\ res.out = Ret(res.out.mapped, res.to[1])
  /\ res.out.mapped # res.term
  /\ \A i \in 1..Len(trmMaps) : Cardinality(DOMAIN trmMaps[i]) = 2

\* C5: with a standard domain, Save and then Load of the saved text give a
\* NameMap with the same domain names at the same indices, the same standard
\* domain and the same Term Indices with the same Rows.
C5_RoundTrip ==
  (res.op = "Reload" /\ ValidIdx(stdDom))
  => /\ res.err = "nil"
     /\ reloaded = Current

\* C6: To.Map agrees with NameMap.Map on the bound list, the domain being
\* replaced by its first position in the list; otherwise both return
\* (term, -1).  FromTo.Map(term) is To.Map(bound source, term).
C6_ToMapAgrees ==
  /\ res.op = "ToMap"
     => LET m == Map(trmMaps, res.from, res.term, res.tIdxs) IN
        IF ~m.panic /\ m.domain >= 0
        THEN res.out =
               Ret(m.mapped,
                   Least({k \in 1..Len(res.tIdxs) : res.tIdxs[k] = m.domain}) - 1)
        ELSE m = Ret(res.term, -1) /\ res.out = Ret(res.term, -1)
  /\ res.op = "FromToMap"
     => res.out = ToMap(Current, res.tIdxs, res.fIdx, res.term)

\* the indices of the names of a list that resolve, in the order given
RECURSIVE Resolved(_)
Resolved(names) ==
  IF names = <<>> THEN <<>>
  ELSE LET rest == Resolved(Tail(names)) IN
       IF Head(names) \in DOMAIN domIdxs
       THEN <<domIdxs[Head(names)]>> \o rest ELSE rest

\* C7: To binds the indices of the resolvable names in the order given, with
\* the standard domain's index appended once exactly if appendStd is set and
\* it is not in the list; every bound index is a valid domain index.
C7_ToBindsValidIndices ==
  res.op = "To"
  => LET l == Resolved(res.names)
         has == \E k \in 1..Len(l) : l[k] = stdDom
     IN /\ \A k \in 1..Len(res.tIdxs) : ValidIdx(res.tIdxs[k])
        /\ res.tIdxs = IF res.appendStd /\ ~has /\ ValidIdx(stdDom)
                       THEN Append(l, stdDom) ELSE l

\* C8: Load fails on a header with a repeated name, with more than one
\* marked token or with no domain; otherwise, the rows being well formed, it
\* succeeds, DomainIdx gives each declared name its position and -1 to any
\* other name, and the standard domain is the marked position, or -1.
Marked(h) == {i \in 1..Len(h) : h[i].Meta}
HasDuplicate(h) == \E i, j \in 1..Len(h) : i < j /\ h[i].Name = h[j].Name

C8_HeaderContract ==
  (res.op = "Load" /\ res.defOK)
  => LET h == res.tDef IN
     IF HasDuplicate(h) \/ Cardinality(Marked(h)) > 1 \/ Len(h) = 0
     THEN res.err \in {"duplicate", "ambiguous", "empty"}
     ELSE res.rowsOK
          => /\ res.err = "nil"
             /\ \A i \in 1..Len(h) : DomainIdx(domIdxs, h[i].Name) = i - 1
             /\ \A nm \in QueryNames :
                  (\A i \in 1..Len(h) : h[i].Name # nm)
                  => DomainIdx(domIdxs, nm) = -1
             /\ stdDom = IF Marked(h) = {} THEN -1
                         ELSE (CHOOSE i \in Marked(h) : TRUE) - 1

C8_Witness ==
  /\ res.op = "Load" /\ res.defOK /\ res.err = "nil"
  /\ Len(res.tDef) = 2
  /\ Marked(res.tDef) = {2}
  /\ stdDom = 1
  /\ DomainIdx(domIdxs, res.tDef[2].Name) = 1
  /\ \E nm \in QueryNames : DomainIdx(domIdxs, nm) = -1

\* C9: Check returns UnknownDomain with the given hints exactly when the view
\* is unresolved (a From or FromTo without a valid source index, a To or
\* FromTo without any valid target index), nil otherwise; Verify panics
\* exactly when Check returns an error and returns the view otherwise.
HasValidTarget(tIdxs) == \E k \in 1..Len(tIdxs) : ValidIdx(tIdxs[k])

C9_CheckReportsUnresolved ==
  LET unresolved ==
        \/ res.op \in {"From", "FromStd"} /\ ~ValidIdx(res.fIdx)
        \/ res.op = "To" /\ ~HasValidTarget(res.tIdxs)
        \/ res.op = "FromTo"
           /\ (~ValidIdx(res.fIdx) \/ ~HasValidTarget(res.tIdxs))
      view == IF res.op = "To" THEN res.tIdxs
              ELSE IF res.op = "FromTo" THEN <<res.fIdx, res.tIdxs>>
              ELSE res.fIdx
  IN res.op \in {"From", "FromStd", "To", "FromTo"}
     => /\ res.check = IF unresolved
                       THEN UnknownDomain(res.mapHint, res.domainHint) ELSE Nil
        /\ res.verify.panic = (res.check.err # "nil")
        /\ ~res.verify.panic => res.verify.view = <<view>>

\* C10: after any sequence of Load calls, failed ones included, there are as
\* many Term Indices as domains, the domain indices are 0..n-1, the standard
\* index is -1 or in 0..n-1, every Row has n slots, and a Row under key k in
\* domain i has k in slot i.
C10_StructuralAlignment ==
  loads >= 1
  => /\ Len(trmMaps) = NDoms
     /\ {domIdxs[d] : d \in DOMAIN domIdxs} = 0..(NDoms - 1)
     /\ stdDom \in -1..(NDoms - 1)
     /\ \A i \in 1..Len(trmMaps) : \A k \in DOMAIN trmMaps[i] :
          /\ Len(trmMaps[i][k]) = NDoms
          /\ trmMaps[i][k][i] = k
\* ------------------------------------------------- what holds beside the bugs
\* C6, for a valid source index: To.Map and NameMap.Map agree as claimed.
C6_AgreesOnValidSource ==
  (res.op = "ToMap" /\ ValidIdx(res.from))
  => LET m == Map(trmMaps, res.from, res.term, res.tIdxs) IN
     IF ~m.panic /\ m.domain >= 0
     THEN res.out =
            Ret(m.mapped,
                Least({k \in 1..Len(res.tIdxs) : res.tIdxs[k] = m.domain}) - 1)
     ELSE m = Ret(res.term, -1) /\ res.out = Ret(res.term, -1)

\* C7, for a NameMap with a standard domain: To binds what is claimed.
C7_WithStandardDomain == ValidIdx(stdDom) => C7_ToBindsValidIndices

\* C9, for a NameMap with a standard domain: Check and Verify are as claimed.
C9_WithStandardDomain == ValidIdx(stdDom) => C9_CheckReportsUnresolved

\* C10, after a Load that returned nil: the NameMap is aligned.
C10_AfterSuccessfulLoad ==
  (res.op = "Load" /\ res.err = "nil") => C10_StructuralAlignment
====
